---- MODULE Spec2Model ----
(***************************************************************************)
(* A model of dumb_cfd: the convection dispatcher and its linear 1-D time  *)
(* loop (src/dumb_cfd/convection.py) and the boundary updaters             *)
(* (src/dumb_cfd/utils.py).                                                *)
(*                                                                         *)
(* numpy arrays are records [shape, data]: shape is the tuple of extents   *)
(* and data the cells in row-major order, as numpy stores them.            *)
(*                                                                         *)
(* Cell values are reals.  The model keeps them exact: every cell of the   *)
(* padded buffer `state` is an integer numerator over the one common       *)
(* denominator `den`, and the coefficient                                  *)
(* speed_x * timestep_size / step_length_x is the fraction CoefNum/CoefDen.*)
(* Fields are taken to be float arrays, as the documentation says (an      *)
(* integer array would make the in-place subtraction raise a casting       *)
(* error on the first step).                                               *)
(***************************************************************************)
EXTENDS Integers, Sequences, FiniteSets, TLC

VARIABLES
    pc,                       \* position of the call in progress
    initial_state,            \* argument of convection
    num_timesteps,            \* argument of convection
    timestep_size,            \* argument of convection, the fraction num/den
    step_length,              \* argument of convection, a tuple
    periodic,                 \* argument of convection / update_boundary
    speed,                    \* argument of convection, a tuple; <<>> when omitted
    constant_boundary_value,  \* argument of convection / update_boundary
    boundary_size,            \* local of convection_linear_1d / argument of update_boundary
    state,                    \* the padded buffer of convection_linear_1d (numerators)
    den,                      \* common denominator of the cells of state
    step_i,                   \* number of loop iterations completed
    old,                      \* history: buffer and denominator when the last stepper began
    ops,                      \* history: the operations performed by the run, in order
    result,                   \* the array returned
    error,                    \* the exception that ended the call, "" when none
    raised,                   \* history: every exception type raised by a call so far
    working_array,            \* argument of a direct update_boundary call, mutated in place
    wa_old,                   \* history: working_array as it was passed
    todo                      \* regions of periodic_2d not yet copied (region-order study)

vars == <<pc, initial_state, num_timesteps, timestep_size, step_length, periodic,
          speed, constant_boundary_value, boundary_size, state, den, step_i, old,
          ops, result, error, raised, working_array, wa_old, todo>>

---------------------------------------------------------------------------
(* Bounds of the model *)

MaxLen == 5

MaxSteps == 2

MaxB == 3

MaxW == 3

CallsMaxLen == 1

(* Program constants *)

DefaultBoundaryValue == 0

LinearBoundarySize == 1

Cells == {0, 1}

---------------------------------------------------------------------------
(* numpy arrays and Python indexing *)

Max(a, b) == IF a >= b THEN a ELSE b

Min(a, b) == IF a <= b THEN a ELSE b

NoArray == [shape |-> <<0>>, data |-> <<>>]

ndim(a) == Len(a.shape)

\* A slice bound as Python normalises it against an axis of length n:
\* a negative bound counts from the end, and the result is clipped to 0..n.
Norm(i, n) == IF i < 0 THEN Max(i + n, 0) ELSE Min(i, n)

\* a[i] for one index of a rank-1 array (negative i counts from the end);
\* the position in data, 1-based.
Pos(i, n) == (IF i < 0 THEN i + n ELSE i) + 1

GetItem(a, i) == a.data[Pos(i, a.shape[1])]

SetItem(a, i, v) == [a EXCEPT !.data[Pos(i, a.shape[1])] = v]

\* a[start:stop] of a rank-1 array.
Slice1(a, start, stop) ==
    LET n == a.shape[1]
        s == Norm(start, n)
        e == Norm(stop, n)
        m == Max(e - s, 0)
    IN  [shape |-> <<m>>, data |-> [j \in 1..m |-> a.data[s + j]]]

\* a[start:stop] = vals for a rank-1 array.
SetSlice1(a, start, stop, vals) ==
    LET n == a.shape[1]
        s == Norm(start, n)
        e == Norm(stop, n)
    IN  [a EXCEPT !.data = [i \in 1..n |->
            IF s < i /\ i <= e THEN vals[i - s] ELSE a.data[i]]]

\* Cell (r, c) of a rank-2 array, 0-based.
Cell2(a, r, c) == a.data[r * a.shape[2] + c + 1]

RowOf(a, i) == (i - 1) \div a.shape[2]

ColOf(a, i) == (i - 1) % a.shape[2]

\* a[r0:r1, c0:c1] = v for a rank-2 array (bounds already normalised).
SetBlock(a, r0, r1, c0, c1, v) ==
    [a EXCEPT !.data = [i \in 1..Len(a.data) |->
        IF /\ r0 <= RowOf(a, i) /\ RowOf(a, i) < r1
           /\ c0 <= ColOf(a, i) /\ ColOf(a, i) < c1
        THEN v ELSE a.data[i]]]

\* a[r0:r1, c0:c1] = a[sr0:.., sc0:..] for a rank-2 array: numpy reads the
\* source block as it was before the assignment.
CopyBlock(a, r0, r1, c0, c1, sr0, sc0) ==
    [a EXCEPT !.data = [i \in 1..Len(a.data) |->
        IF /\ r0 <= RowOf(a, i) /\ RowOf(a, i) < r1
           /\ c0 <= ColOf(a, i) /\ ColOf(a, i) < c1
        THEN Cell2(a, sr0 + (RowOf(a, i) - r0), sc0 + (ColOf(a, i) - c0))
        ELSE a.data[i]]]

Zeros(n) == [j \in 1..n |-> 0]

\* np.pad(a, (b, b)) of a rank-1 array: b zero cells on each side.
np_pad(a, b) ==
    [shape |-> <<a.shape[1] + 2 * b>>, data |-> Zeros(b) \o a.data \o Zeros(b)]

---------------------------------------------------------------------------
(* utils.py: the boundary updaters *)

RECURSIVE constant_1d_loop(_, _, _, _)
constant_1d_loop(wa, b, v, i) ==
    IF i >= b THEN wa
    ELSE constant_1d_loop(SetItem(SetItem(wa, i, v), -(i + 1), v), b, v, i + 1)

constant_1d(wa, b, v) == constant_1d_loop(wa, b, v, 0)

\* One iteration of the loop of constant_2d: four slab assignments.
constant_2d_body(wa, v, i) ==
    LET X  == wa.shape[1]
        Y  == wa.shape[2]
        a1 == SetBlock(wa, Norm(i, X), X, 0, Y, v)            \* wa[i:, :]
        a2 == SetBlock(a1, 0, Norm(-(i + 1), X), 0, Y, v)     \* wa[:-(i+1), :]
        a3 == SetBlock(a2, 0, X, Norm(i, Y), Y, v)            \* wa[:, i:]
    IN  SetBlock(a3, 0, X, 0, Norm(-(i + 1), Y), v)           \* wa[:, :-(i+1)]

RECURSIVE constant_2d_loop(_, _, _, _)
constant_2d_loop(wa, b, v, i) ==
    IF i >= b THEN wa
    ELSE constant_2d_loop(constant_2d_body(wa, v, i), b, v, i + 1)

constant_2d(wa, b, v) == constant_2d_loop(wa, b, v, 0)

\* A wrap index that is off by one: the left margin is read one cell too far right.
periodic_1d_body_off(wa, b, i) ==
    LET a1 == SetItem(wa, i, GetItem(wa, i - 2 * b + 1))
    IN  SetItem(a1, -(i + 1), GetItem(a1, 2 * b - (i + 1)))

\* One iteration of the loop of periodic_1d: the second assignment reads the
\* array as the first one left it.
periodic_1d_body(wa, b, i) ==
    LET a1 == SetItem(wa, i, GetItem(wa, i - 2 * b))
    IN  SetItem(a1, -(i + 1), GetItem(a1, 2 * b - (i + 1)))

RECURSIVE periodic_1d_loop(_, _, _)
periodic_1d_loop(wa, b, i) ==
    IF i >= b THEN wa
    ELSE periodic_1d_loop(periodic_1d_body(wa, b, i), b, i + 1)

periodic_1d(wa, b) == periodic_1d_loop(wa, b, 0)

\* The bounds periodic_2d computes for region xr (or yr) of an axis of
\* interior width w.
x_0(xr, w, b) == b + Max(xr * w, -b)

x_1(xr, w, b) == b + Min((xr + 1) * w, w + b)

w_of(wa, b, axis) == wa.shape[axis] - 2 * b

\* The column range of the source is not moved back by the interior width.
CopyRegion_nocolshift(wa, b, xr, yr) ==
    LET X == wa.shape[1]
        Y == wa.shape[2]
        wx == w_of(wa, b, 1)
        wy == w_of(wa, b, 2)
    IN  CopyBlock(wa,
                  Norm(x_0(xr, wx, b), X), Norm(x_1(xr, wx, b), X),
                  Norm(x_0(yr, wy, b), Y), Norm(x_1(yr, wy, b), Y),
                  Norm(x_0(xr, wx, b) - xr * wx, X),
                  Norm(x_0(yr, wy, b), Y))

\* The body of the inner loop of periodic_2d: one region assignment.
CopyRegion(wa, b, xr, yr) ==
    LET X == wa.shape[1]
        Y == wa.shape[2]
        wx == w_of(wa, b, 1)
        wy == w_of(wa, b, 2)
    IN  CopyBlock(wa,
                  Norm(x_0(xr, wx, b), X), Norm(x_1(xr, wx, b), X),
                  Norm(x_0(yr, wy, b), Y), Norm(x_1(yr, wy, b), Y),
                  Norm(x_0(xr, wx, b) - xr * wx, X),
                  Norm(x_0(yr, wy, b) - yr * wy, Y))

\* The order in which the two nested loops of periodic_2d visit the regions.
RegionOrder ==
    << <<-1, -1>>, <<-1, 0>>, <<-1, 1>>,
       << 0, -1>>, << 0, 0>>, << 0, 1>>,
       << 1, -1>>, << 1, 0>>, << 1, 1>> >>

RECURSIVE periodic_2d_loop(_, _, _)
periodic_2d_loop(wa, b, k) ==
    IF k > Len(RegionOrder) THEN wa
    ELSE periodic_2d_loop(CopyRegion(wa, b, RegionOrder[k][1], RegionOrder[k][2]),
                          b, k + 1)

periodic_2d(wa, b) == periodic_2d_loop(wa, b, 1)

\* update_boundary: four independent tests, at most one of which applies.
update_boundary(wa, b, per, v) ==
    LET a1 == IF ndim(wa) = 1 /\ ~per THEN constant_1d(wa, b, v) ELSE wa
        a2 == IF ndim(a1) = 1 /\ per THEN periodic_1d(a1, b) ELSE a1
        a3 == IF ndim(a2) = 2 /\ ~per THEN constant_2d(a2, b, v) ELSE a2
    IN  IF ndim(a3) = 2 /\ per THEN periodic_2d(a3, b) ELSE a3

---------------------------------------------------------------------------
(* convection.py: the dispatcher and the linear 1-D time loop *)

\* Truth value of the speed argument: None and the empty tuple are false.
Truthy(sp) == Len(sp) > 0

\* The keyword arguments convection passes to the nonlinear paths, and to
\* the linear ones.
NonlinearKeywords ==
    {"initial_state", "num_timesteps", "timestep_size", "step_length",
     "periodic", "constant_boundary_value"}

LinearKeywords == NonlinearKeywords \cup {"speed"}

\* The parameters each unimplemented path declares.
Params_nonlinear_1d ==
    {"initial_state", "num_timesteps", "timestep_size", "step_length", "periodic"}

Params_linear_2d ==
    {"initial_state", "num_timesteps", "timestep_size", "step_length",
     "periodic", "speed", "constant_boundary_value"}

Params_nonlinear_2d ==
    {"initial_state", "num_timesteps", "timestep_size", "step_length",
     "periodic", "constant_boundary_value"}

\* Calling a function whose body is `raise NotImplementedError`: a keyword
\* the function does not declare fails the call before the body runs.
call_stub(keywords, params) ==
    IF keywords \subseteq params THEN "NotImplementedError" ELSE "TypeError"

\* The exception a call of convection ends in, "" when it takes the
\* implemented path convection_linear_1d.
dispatch_error(f, sp) ==
    IF ndim(f) = 1 /\ Truthy(sp) THEN ""
    ELSE IF ndim(f) = 1 /\ ~Truthy(sp)
         THEN call_stub(NonlinearKeywords, Params_nonlinear_1d)
    ELSE IF ndim(f) = 2 /\ Truthy(sp)
         THEN call_stub(LinearKeywords, Params_linear_2d)
    ELSE IF ndim(f) = 2 /\ ~Truthy(sp)
         THEN call_stub(NonlinearKeywords, Params_nonlinear_2d)
    ELSE "RuntimeError"

\* speed_x * timestep_size / step_length_x as the fraction CoefNum / CoefDen.
CoefNum == speed[1] * timestep_size.num

CoefDen == timestep_size.den * step_length[1]

\* An update that walks the interior left to right in place, so that each
\* cell sees the value its left neighbour was just given.  That value is
\* brought back to the old denominator by a division, exact when q = 1.
RECURSIVE stepper_inplace_loop(_, _, _, _)
stepper_inplace_loop(data, p, q, i) ==
    IF i > Len(data) - 1 THEN data
    ELSE LET l == IF i = 2 THEN data[1] ELSE data[i - 1] \div q
         IN  stepper_inplace_loop(
                 [data EXCEPT ![i] = q * data[i] - p * (data[i] - l)],
                 p, q, i + 1)

stepper_inplace(st, p, q) ==
    LET n      == st.shape[1]
        walked == stepper_inplace_loop(st.data, p, q, 2)
    IN  [st EXCEPT !.data = [i \in 1..n |->
            IF i = 1 \/ i = n THEN q * walked[i] ELSE walked[i]]]

\* state[1:-1] -= p/q * (state[1:-1] - state[:-2]).  numpy evaluates the
\* right-hand side into a new array before it subtracts in place.  Every
\* cell of the result is a numerator over q times the old denominator.
stepper(st, p, q) ==
    LET n      == st.shape[1]
        centre == Slice1(st, 1, -1).data
        left   == Slice1(st, 0, -2).data
        delta  == [j \in 1..Len(centre) |-> p * (centre[j] - left[j])]
        new    == [j \in 1..Len(centre) |-> q * centre[j] - delta[j]]
        scaled == [st EXCEPT !.data = [i \in 1..n |-> q * st.data[i]]]
    IN  SetSlice1(scaled, 1, -1, new)

\* state[boundary_size:-boundary_size], read one cell too late.
extract_late(st, b) == Slice1(st, b + 1, -b)

\* state[boundary_size:-boundary_size]
extract(st, b) == Slice1(st, b, -b)

\* A loop that runs once more than range(num_timesteps).
MoreSteps_inclusive == step_i <= num_timesteps

\* for _ in range(num_timesteps)
MoreSteps == step_i < num_timesteps

NoOld == [buf |-> NoArray, den |-> 1]

\* One call of convection up to the head of the time loop, or to the
\* exception that ends it.
convection(f, n, ts, dx, per, sp, v) ==
    /\ initial_state' = f
    /\ num_timesteps' = n
    /\ timestep_size' = ts
    /\ step_length' = dx
    /\ periodic' = per
    /\ speed' = sp
    /\ constant_boundary_value' = v
    /\ step_i' = 0
    /\ old' = NoOld
    /\ ops' = <<>>
    /\ result' = NoArray
    /\ den' = 1
    /\ working_array' = NoArray
    /\ wa_old' = NoArray
    /\ todo' = {}
    /\ error' = dispatch_error(f, sp)
    /\ IF dispatch_error(f, sp) = ""
       THEN /\ boundary_size' = LinearBoundarySize
            /\ state' = np_pad(f, LinearBoundarySize)
            /\ raised' = raised
            /\ pc' = "loop"
       ELSE /\ boundary_size' = 0
            /\ state' = NoArray
            /\ raised' = raised \cup {dispatch_error(f, sp)}
            /\ pc' = "error"

\* The boundary update of one time step.  The call passes no
\* constant_boundary_value, so update_boundary uses its default.
BoundaryUpdate ==
    /\ pc = "loop"
    /\ MoreSteps
    /\ state' = update_boundary(state, boundary_size, periodic,
                                DefaultBoundaryValue * den)
    /\ ops' = Append(ops, "boundary")
    /\ pc' = "stepper"
    /\ UNCHANGED <<initial_state, num_timesteps, timestep_size, step_length,
                   periodic, speed, constant_boundary_value, boundary_size, den,
                   step_i, old, result, error, raised, working_array, wa_old, todo>>

\* The stencil update of one time step.
Stepper ==
    /\ pc = "stepper"
    /\ old' = [buf |-> state, den |-> den]
    /\ state' = stepper(state, CoefNum, CoefDen)
    /\ den' = den * CoefDen
    /\ step_i' = step_i + 1
    /\ ops' = Append(ops, "stepper")
    /\ pc' = "loop"
    /\ UNCHANGED <<initial_state, num_timesteps, timestep_size, step_length,
                   periodic, speed, constant_boundary_value, boundary_size,
                   result, error, raised, working_array, wa_old, todo>>

\* The loop is exhausted: return the interior.
Return ==
    /\ pc = "loop"
    /\ ~MoreSteps
    /\ result' = extract(state, boundary_size)
    /\ pc' = "done"
    /\ UNCHANGED <<initial_state, num_timesteps, timestep_size, step_length,
                   periodic, speed, constant_boundary_value, boundary_size, state,
                   den, step_i, old, ops, error, raised, working_array, wa_old, todo>>

\* A direct call of update_boundary on a caller's array.
UpdateBoundaryCall(wa, b, per, v) ==
    /\ pc = "idle"
    /\ wa_old' = wa
    /\ working_array' = update_boundary(wa, b, per, v)
    /\ boundary_size' = b
    /\ periodic' = per
    /\ constant_boundary_value' = v
    /\ pc' = "ub_done"
    /\ UNCHANGED <<initial_state, num_timesteps, timestep_size, step_length, speed,
                   state, den, step_i, old, ops, result, error, raised, todo>>

---------------------------------------------------------------------------
(* Inputs *)

Fields1D(m) ==
    UNION { { [shape |-> <<n>>, data |-> d] : d \in [1..n -> Cells] } : n \in 0..m }

\* Fields of rank 0, 2 and 3.
OtherFields ==
    { [shape |-> <<>>, data |-> <<1>>],
      [shape |-> <<1, 2>>, data |-> <<0, 1>>],
      [shape |-> <<2, 2>>, data |-> <<1, 0, 0, 1>>],
      [shape |-> <<1, 1, 1>>, data |-> <<1>>] }

Ones(r) == [j \in 1..r |-> 1]

SpeedValues == {-1, 1, 2}

\* speed omitted, or a tuple with one component per axis.
SpeedsFor(f) ==
    IF ndim(f) = 1 THEN {<<>>} \cup { <<c>> : c \in SpeedValues }
    ELSE {<<>>, Ones(ndim(f))}

StepLengthsFor(f) ==
    IF ndim(f) = 1 THEN {<<1>>, <<2>>} ELSE {Ones(ndim(f))}

TimestepSizes == { [num |-> 1, den |-> 2], [num |-> 1, den |-> 1] }

BoundaryValues == {0, 1}

Patterns == {"ramp", "alt"}

\* A buffer of the given shape: all cells distinct, or alternating 1, 0.
Patterned(shape, pat) ==
    LET size == IF Len(shape) = 1 THEN shape[1] ELSE shape[1] * shape[2]
    IN  [shape |-> shape,
         data |-> [i \in 1..size |-> IF pat = "ramp" THEN i ELSE i % 2]]

Regions == { <<xr, yr>> : xr \in {-1, 0, 1}, yr \in {-1, 0, 1} }

---------------------------------------------------------------------------
(* Specifications *)

Init ==
    /\ pc = "idle"
    /\ initial_state = NoArray
    /\ num_timesteps = 0
    /\ timestep_size = [num |-> 1, den |-> 1]
    /\ step_length = <<>>
    /\ periodic = FALSE
    /\ speed = <<>>
    /\ constant_boundary_value = 0
    /\ boundary_size = 0
    /\ state = NoArray
    /\ den = 1
    /\ step_i = 0
    /\ old = NoOld
    /\ ops = <<>>
    /\ result = NoArray
    /\ error = ""
    /\ raised = {}
    /\ working_array = NoArray
    /\ wa_old = NoArray
    /\ todo = {}

\* A caller calls convection.
Call ==
    /\ pc = "idle"
    /\ \E f \in Fields1D(MaxLen) \cup OtherFields :
       \E n \in 0..MaxSteps, ts \in TimestepSizes, per \in BOOLEAN,
          v \in BoundaryValues :
       \E dx \in StepLengthsFor(f), sp \in SpeedsFor(f) :
          convection(f, n, ts, dx, per, sp, v)

\* A caller calls update_boundary on a padded rank-1 buffer.
Call_update_boundary_1d ==
    \E b \in 1..MaxB, w \in 0..MaxW, pat \in Patterns, per \in BOOLEAN,
       v \in BoundaryValues :
        UpdateBoundaryCall(Patterned(<<w + 2 * b>>, pat), b, per, v)

\* A caller calls update_boundary on a padded rank-2 buffer.
Call_update_boundary_2d ==
    \E b \in 1..MaxB, wx \in 0..MaxW, wy \in 0..MaxW, pat \in Patterns,
       per \in BOOLEAN, v \in BoundaryValues :
        UpdateBoundaryCall(Patterned(<<wx + 2 * b, wy + 2 * b>>, pat), b, per, v)

Next ==
    \/ Call
    \/ BoundaryUpdate
    \/ Stepper
    \/ Return
    \/ Call_update_boundary_1d
    \/ Call_update_boundary_2d

Spec == Init /\ [][Next]_vars

\* The run is sequential code: whatever step is next is taken.
FairSpec ==
    Spec /\ WF_vars(BoundaryUpdate) /\ WF_vars(Stepper) /\ WF_vars(Return)

---------------------------------------------------------------------------
(* Properties of a convection run on a rank-1 field with a speed *)

RECURSIVE SumSeq(_)
SumSeq(q) == IF q = <<>> THEN 0 ELSE Head(q) + SumSeq(Tail(q))

\* The run is at the end of a time-step iteration: its stepper has run.
AfterStep == pc \in {"loop", "done"} /\ step_i >= 1

\* The interior of the padded buffer.
Interior(st, b) == Slice1(st, b, st.shape[1] - b).data

\* C1: in a run with periodic = FALSE, at the end of every time-step
\* iteration both boundary cells of the padded buffer equal the
\* constant_boundary_value the caller passed.
C1_BoundaryIsPassedValue ==
    (AfterStep /\ ~periodic) =>
        /\ GetItem(state, 0) = constant_boundary_value * den
        /\ GetItem(state, -1) = constant_boundary_value * den

\* C2: in a run with periodic = TRUE the sum of the interior cells after
\* every time step equals the sum of initial_state (exact arithmetic: the
\* numerators sum to den times the initial sum).
C2_PeriodicSumConserved ==
    (AfterStep /\ periodic) =>
        SumSeq(Interior(state, boundary_size)) = den * SumSeq(initial_state.data)

C2_Witness ==
    /\ AfterStep /\ periodic /\ step_i = 2
    /\ SumSeq(initial_state.data) = 2
    /\ CoefNum * 2 = CoefDen
    /\ Interior(state, boundary_size) # [j \in 1..Len(initial_state.data) |->
                                            den * initial_state.data[j]]

\* C3: one stepper application sets every interior cell x to
\* old(x) - k * (old(x) - old(x-1)), k = CoefNum / CoefDen, every old(.) being
\* the buffer as it was when the stepper began; and [0,0,1,0,0] with
\* k = 1/2, periodic = FALSE and one step gives 1/2 at index 3 and 0 at
\* indices 0, 1 and 4.
C3_StepperUsesOldValues ==
    /\ AfterStep =>
        /\ den = old.den * CoefDen
        /\ \A x \in 1..(state.shape[1] - 2) :
              GetItem(state, x) =
                  CoefDen * GetItem(old.buf, x)
                  - CoefNum * (GetItem(old.buf, x) - GetItem(old.buf, x - 1))
    /\ ( /\ pc = "done"
         /\ initial_state.data = <<0, 0, 1, 0, 0>>
         /\ num_timesteps = 1
         /\ ~periodic
         /\ CoefNum * 2 = CoefDen ) =>
        /\ 2 * result.data[4] = den
        /\ result.data[1] = 0
        /\ result.data[2] = 0
        /\ result.data[5] = 0

C3_Witness ==
    /\ pc = "done"
    /\ initial_state.data = <<0, 0, 1, 0, 0>>
    /\ num_timesteps = 1
    /\ ~periodic
    /\ CoefNum * 2 = CoefDen
    /\ result.data[3] # 0

\* C5: a call with num_timesteps = 0 on a field of rank 1 or 2, speed given
\* or omitted, returns an array equal to initial_state.
C5_ZeroStepsReturnsInput ==
    ( /\ pc \in {"done", "error"}
      /\ num_timesteps = 0
      /\ ndim(initial_state) \in {1, 2} ) =>
        /\ pc = "done"
        /\ result = initial_state
        /\ den = 1

\* Left-margin cell i equals the cell at i + W and right-margin cell
\* length-1-i the cell at length-1-i-W, W the interior width.
Wrapped(a, b) ==
    LET n == a.shape[1]
        W == n - 2 * b
    IN  \A i \in 0..(b - 1) :
            /\ GetItem(a, i) = GetItem(a, i + W)
            /\ GetItem(a, n - 1 - i) = GetItem(a, n - 1 - i - W)

\* The boundary update itself wraps, for b in {1,2,3} and W >= b.
PeriodicUpdateWraps ==
    ( /\ pc = "ub_done"
      /\ ndim(wa_old) = 1
      /\ periodic
      /\ boundary_size \in {1, 2, 3}
      /\ wa_old.shape[1] - 2 * boundary_size >= boundary_size ) =>
        /\ Wrapped(working_array, boundary_size)
        /\ Interior(working_array, boundary_size) = Interior(wa_old, boundary_size)

\* C7 as stated: in a periodic run the margins mirror the interior at the
\* end of every time-step iteration (after the stepper).
C7_WrappedAtEndOfStep ==
    /\ (AfterStep /\ periodic) => Wrapped(state, boundary_size)
    /\ PeriodicUpdateWraps

\* C7 amended: in a periodic run the margins mirror the interior when each
\* step's boundary update has run and its stepper has not yet; the boundary
\* update itself wraps for b in {1,2,3} and W >= b.
C7_WrappedAfterBoundaryUpdate ==
    /\ (pc = "stepper" /\ periodic) => Wrapped(state, boundary_size)
    /\ PeriodicUpdateWraps

C7_Witness ==
    /\ pc = "stepper" /\ periodic /\ step_i = 1
    /\ GetItem(state, 0) # 0
    /\ GetItem(state, 0) # GetItem(state, -1)

\* C8: update_boundary with periodic = FALSE on a rank-2 buffer sets every
\* cell within b rows or columns of an edge to constant_boundary_value and
\* leaves every interior cell as it was.
C8_Constant2dKeepsInterior ==
    ( /\ pc = "ub_done"
      /\ ndim(wa_old) = 2
      /\ ~periodic
      /\ boundary_size >= 1
      /\ wa_old.shape[1] - 2 * boundary_size >= 1
      /\ wa_old.shape[2] - 2 * boundary_size >= 1 ) =>
        /\ working_array.shape = wa_old.shape
        /\ \A r \in 0..(wa_old.shape[1] - 1), c \in 0..(wa_old.shape[2] - 1) :
              IF /\ boundary_size <= r /\ r < wa_old.shape[1] - boundary_size
                 /\ boundary_size <= c /\ c < wa_old.shape[2] - boundary_size
              THEN Cell2(working_array, r, c) = Cell2(wa_old, r, c)
              ELSE Cell2(working_array, r, c) = constant_boundary_value

\* The run's operations so far are a prefix of (boundary, stepper) repeated
\* num_timesteps times, and the position in the code agrees with them.
OpsInOrder ==
    pc \in {"loop", "stepper", "done"} =>
        /\ Len(ops) <= 2 * num_timesteps
        /\ \A i \in 1..Len(ops) :
              ops[i] = IF i % 2 = 1 THEN "boundary" ELSE "stepper"
        /\ pc = "loop" => Len(ops) = 2 * step_i
        /\ pc = "stepper" => Len(ops) = 2 * step_i + 1
        /\ pc = "done" =>
              /\ Len(ops) = 2 * num_timesteps
              /\ result.data = Interior(state, boundary_size)

\* C10: a run with num_timesteps = n performs exactly (boundary update,
\* stepper) n times, in that order, nothing after the n-th stepper, and
\* reaches Done.
C10_RunSequence ==
    /\ []OpsInOrder
    /\ [][pc = "done" => ops' = ops]_vars
    /\ (pc \in {"loop", "stepper"}) ~> (pc = "done")

C10_Witness ==
    /\ pc = "done"
    /\ num_timesteps = 2
    /\ ops = <<"boundary", "stepper", "boundary", "stepper">>

---------------------------------------------------------------------------
(* A caller that calls convection again after a call has ended *)

CallAgain ==
    /\ pc \in {"idle", "done", "error"}
    /\ \E f \in Fields1D(CallsMaxLen) \cup OtherFields :
       \E n \in 0..MaxSteps, ts \in TimestepSizes, per \in BOOLEAN,
          v \in BoundaryValues :
       \E dx \in StepLengthsFor(f), sp \in SpeedsFor(f) :
          convection(f, n, ts, dx, per, sp, v)

NextCalls ==
    \/ CallAgain
    \/ BoundaryUpdate
    \/ Stepper
    \/ Return

SpecCalls == Init /\ [][NextCalls]_vars

\* C4: every call for which no specialised path exists or is implemented
\* ends in one and the same error, before any padded buffer is allocated
\* or any operation runs, and returns no array.
C4_OneErrorBeforeAllocation ==
    pc = "error" =>
        /\ Cardinality(raised) = 1
        /\ state = NoArray
        /\ ops = <<>>
        /\ result = NoArray

---------------------------------------------------------------------------
(* The padded buffer: allocation and extraction for any boundary width *)

InitRoundTrip ==
    /\ pc = "rt_start"
    /\ initial_state \in Fields1D(MaxLen)
    /\ boundary_size \in 0..MaxB
    /\ num_timesteps = 0
    /\ timestep_size = [num |-> 1, den |-> 1]
    /\ step_length = <<>>
    /\ periodic = FALSE
    /\ speed = <<>>
    /\ constant_boundary_value = 0
    /\ state = NoArray
    /\ den = 1
    /\ step_i = 0
    /\ old = NoOld
    /\ ops = <<>>
    /\ result = NoArray
    /\ error = ""
    /\ raised = {}
    /\ working_array = NoArray
    /\ wa_old = NoArray
    /\ todo = {}

\* state = np.pad(initial_state, (boundary_size, boundary_size))
Allocate ==
    /\ pc = "rt_start"
    /\ state' = np_pad(initial_state, boundary_size)
    /\ pc' = "rt_padded"
    /\ UNCHANGED <<initial_state, num_timesteps, timestep_size, step_length,
                   periodic, speed, constant_boundary_value, boundary_size, den,
                   step_i, old, ops, result, error, raised, working_array,
                   wa_old, todo>>

\* return state[boundary_size:-boundary_size]
Extract ==
    /\ pc = "rt_padded"
    /\ result' = extract(state, boundary_size)
    /\ pc' = "rt_done"
    /\ UNCHANGED <<initial_state, num_timesteps, timestep_size, step_length,
                   periodic, speed, constant_boundary_value, boundary_size, state,
                   den, step_i, old, ops, error, raised, working_array, wa_old,
                   todo>>

NextRoundTrip ==
    \/ Allocate
    \/ Extract

SpecRoundTrip == InitRoundTrip /\ [][NextRoundTrip]_vars

\* C6 as stated: for every boundary width b >= 0, padding a rank-1 field and
\* slicing buffer[b:-b] gives the field back.
C6_RoundTripAnyWidth ==
    pc = "rt_done" => result = initial_state

\* C6 amended: for every boundary width b >= 1, padding a rank-1 field and
\* slicing buffer[b:-b] gives the field back, same length and same cells.
C6_RoundTripPositiveWidth ==
    (pc = "rt_done" /\ boundary_size >= 1) =>
        /\ result.shape = initial_state.shape
        /\ result.data = initial_state.data

C6_Witness ==
    /\ pc = "rt_done"
    /\ boundary_size = 2
    /\ initial_state.data = <<1, 0, 1>>
    /\ state.data = <<0, 0, 1, 0, 1, 0, 0>>

---------------------------------------------------------------------------
(* periodic_2d with its nine region assignments taken in any order *)

InitRegions ==
    /\ pc = "regions"
    /\ \E b \in 1..MaxB, wx \in 0..MaxW, wy \in 0..MaxW, pat \in Patterns :
          /\ working_array = Patterned(<<wx + 2 * b, wy + 2 * b>>, pat)
          /\ wa_old = Patterned(<<wx + 2 * b, wy + 2 * b>>, pat)
          /\ boundary_size = b
    /\ todo = Regions
    /\ periodic = TRUE
    /\ initial_state = NoArray
    /\ num_timesteps = 0
    /\ timestep_size = [num |-> 1, den |-> 1]
    /\ step_length = <<>>
    /\ speed = <<>>
    /\ constant_boundary_value = 0
    /\ state = NoArray
    /\ den = 1
    /\ step_i = 0
    /\ old = NoOld
    /\ ops = <<>>
    /\ result = NoArray
    /\ error = ""
    /\ raised = {}

\* One region assignment, for a region not yet done.
CopyOneRegion ==
    /\ pc = "regions"
    /\ \E r \in todo :
          /\ working_array' = CopyRegion(working_array, boundary_size, r[1], r[2])
          /\ todo' = todo \ {r}
    /\ UNCHANGED <<pc, initial_state, num_timesteps, timestep_size, step_length,
                   periodic, speed, constant_boundary_value, boundary_size, state,
                   den, step_i, old, ops, result, error, raised, wa_old>>

NextRegions == CopyOneRegion

SpecRegions == InitRegions /\ [][NextRegions]_vars

\* The cell of the interior that cell (r, c) shows under periodic tiling.
WrapIndex(i, b, w) == b + ((i - b) % w)

\* The source rows (or columns) region xr reads lie inside the interior.
SourceInInterior(xr, w, b) ==
    /\ b <= x_0(xr, w, b) - xr * w
    /\ x_1(xr, w, b) - xr * w <= b + w

\* C9: with b >= 1 and interior widths W_x, W_y >= b, periodic_2d leaves the
\* interior unchanged and sets every margin and corner cell (r, c) to the
\* pre-call interior cell (b + ((r-b) mod W_x), b + ((c-b) mod W_y)); every
\* source range lies inside the interior, and the final buffer is the one
\* the code's own order produces, whatever order the regions were taken in.
C9_Periodic2dTiling ==
    ( /\ pc = "regions"
      /\ boundary_size >= 1
      /\ w_of(wa_old, boundary_size, 1) >= boundary_size
      /\ w_of(wa_old, boundary_size, 2) >= boundary_size ) =>
        /\ \A r \in Regions :
              /\ SourceInInterior(r[1], w_of(wa_old, boundary_size, 1), boundary_size)
              /\ SourceInInterior(r[2], w_of(wa_old, boundary_size, 2), boundary_size)
        /\ todo = {} =>
              /\ working_array = periodic_2d(wa_old, boundary_size)
              /\ \A r \in 0..(wa_old.shape[1] - 1), c \in 0..(wa_old.shape[2] - 1) :
                    Cell2(working_array, r, c) =
                        Cell2(wa_old,
                              WrapIndex(r, boundary_size, w_of(wa_old, boundary_size, 1)),
                              WrapIndex(c, boundary_size, w_of(wa_old, boundary_size, 2)))

C9_Witness ==
    /\ pc = "regions"
    /\ todo = {}
    /\ boundary_size = 2
    /\ wa_old.shape = <<6, 7>>
    /\ wa_old.data[1] = 1 /\ wa_old.data[2] = 2
    /\ working_array # wa_old

====
